---- MODULE Spec2Model ----
(***************************************************************************)
(* CityGrid (src/main.py): a grid of blocks with random obstructions,      *)
(* greedy tower placement (place_optimal_towers / place_tower /            *)
(* get_coverage), best-first path search between towers (find_path) and    *)
(* the path overlay (build_path_on_grid).                                  *)
(*                                                                         *)
(* Cell values of self.grid: "0" is the integer 0 of the source (an        *)
(* uncovered block), "X" an obstructed block, "|" a tower, "#" a covered   *)
(* block, "*", "B", "E" the markers build_path_on_grid writes.             *)
(* A coordinate (x, y) is the tuple <<x, y>>, 0-based as in the source.    *)
(***************************************************************************)
EXTENDS Integers, Sequences, FiniteSets, TLC

\* Largest row count, column count and tower radius the constructor is given.
MaxN == 3
MaxM == 3
MaxRadius == 2
\* Largest number of place_tower calls the driver makes after construction.
MaxManual == 1
\* Largest column count and number of obstructed cells of the sparse grids.
WideM == 4
MaxObstructed == 1
\* How far outside the grid the coordinates the driver passes may lie, and the
\* longest path the driver hands to build_path_on_grid itself.
Margin == 1
MaxPathLen == 3

VARIABLES n, m, tower_radius, grid, towers, pc, ret, manual, iterations, search

vars == <<n, m, tower_radius, grid, towers, pc, ret, manual, iterations, search>>

Max(a, b) == IF a > b THEN a ELSE b
Min(a, b) == IF a < b THEN a ELSE b
Abs(a) == IF a < 0 THEN -a ELSE a

\* range(self.n) x range(self.m)
Cells == (0 .. n - 1) \X (0 .. m - 1)

\* Python's list indexing, self.grid[x][y]: an index from -len to len - 1 is
\* accepted, a negative one counts from the end, any other raises IndexError.
ValidIndex(i, len) == -len <= i /\ i < len
PyIndex(i, len) == IF i < 0 THEN i + len ELSE i
InRange(x, y) == ValidIndex(x, n) /\ ValidIndex(y, m)
At(x, y) == <<PyIndex(x, n), PyIndex(y, m)>>

\* The order of "for i in range(self.n): for j in range(self.m)".
RowMajor == [k \in 1 .. n * m |-> <<(k - 1) \div m, (k - 1) % m>>]

\* The cells visited by
\*   for i in range(max(0, x - r), min(self.n, x + r + 1)):
\*       for j in range(max(0, y - r), min(self.m, y + r + 1)):
Window(x, y, r) ==
    (Max(0, x - r) .. Min(n, x + r + 1) - 1) \X (Max(0, y - r) .. Min(m, y + r + 1) - 1)

\* Faulty variant of get_uncovered_blocks: the inner loop stops one column
\* early (range(self.m - 1)).
get_uncovered_blocks_short(g) == {c \in Cells : c[2] < m - 1 /\ g[c] = "0"}

\* get_uncovered_blocks: the coordinates whose cell is 0.
get_uncovered_blocks(g) == {c \in Cells : g[c] = "0"}

\* Faulty variant of get_coverage: range(..., x + R) and range(..., y + R),
\* the last row and column of the window are left out.
get_coverage_short(g, x, y, R) ==
    Cardinality({c \in (Max(0, x - R) .. Min(n, x + R) - 1) \X (Max(0, y - R) .. Min(m, y + R) - 1) :
                    g[c] = "0"})

\* get_coverage: the number of 0 cells in the window.
get_coverage(g, x, y, R) == Cardinality({c \in Window(x, y, R) : g[c] = "0"})

\* Faulty variant of place_tower: the test of line 63 forgets 'X'.
place_tower_on_obstruction(g, t, x, y, r) ==
    IF ~InRange(x, y) THEN [grid |-> g, towers |-> t, error |-> "IndexError"]
    ELSE IF g[At(x, y)] \notin {"|"}
    THEN [grid |-> [c \in Cells |->
                      IF c = At(x, y) THEN "|"
                      ELSE IF c \in Window(x, y, r) /\ g[c] = "0" THEN "#"
                      ELSE g[c]],
          towers |-> Append(t, <<x, y>>),
          error |-> "none"]
    ELSE [grid |-> g, towers |-> t, error |-> "none"]

\* Faulty variant of place_tower: the test of line 63 forgets '|'.
place_tower_on_tower(g, t, x, y, r) ==
    IF ~InRange(x, y) THEN [grid |-> g, towers |-> t, error |-> "IndexError"]
    ELSE IF g[At(x, y)] \notin {"X"}
    THEN [grid |-> [c \in Cells |->
                      IF c = At(x, y) THEN "|"
                      ELSE IF c \in Window(x, y, r) /\ g[c] = "0" THEN "#"
                      ELSE g[c]],
          towers |-> Append(t, <<x, y>>),
          error |-> "none"]
    ELSE [grid |-> g, towers |-> t, error |-> "none"]

\* Faulty variant of place_tower: line 69 tests "!= 'X'", every cell of the
\* window that is not obstructed becomes '#'.
place_tower_cover_all(g, t, x, y, r) ==
    IF ~InRange(x, y) THEN [grid |-> g, towers |-> t, error |-> "IndexError"]
    ELSE IF g[At(x, y)] \notin {"|", "X"}
    THEN [grid |-> [c \in Cells |->
                      IF c \in Window(x, y, r) /\ g[c] # "X" THEN "#"
                      ELSE IF c = At(x, y) THEN "|"
                      ELSE g[c]],
          towers |-> Append(t, <<x, y>>),
          error |-> "none"]
    ELSE [grid |-> g, towers |-> t, error |-> "none"]

\* place_tower: the grid and the registry after the call, and the exception
\* it raised, if any (line 63 reads self.grid[x][y] before any write).
place_tower(g, t, x, y, r) ==
    IF ~InRange(x, y) THEN [grid |-> g, towers |-> t, error |-> "IndexError"]
    ELSE IF g[At(x, y)] \notin {"|", "X"}
    THEN [grid |-> [c \in Cells |->
                      IF c = At(x, y) THEN "|"
                      ELSE IF c \in Window(x, y, r) /\ g[c] = "0" THEN "#"
                      ELSE g[c]],
          towers |-> Append(t, <<x, y>>),
          error |-> "none"]
    ELSE [grid |-> g, towers |-> t, error |-> "none"]

\* best_tower_position is None
None == <<>>

\* Faulty variant of the scan: only '#' cells are candidates (line 82).
RECURSIVE ScanBest_covered_only(_, _, _, _)
ScanBest_covered_only(g, k, best, best_coverage) ==
    IF k > n * m THEN best
    ELSE LET c == RowMajor[k]
             coverage == get_coverage(g, c[1], c[2], tower_radius)
         IN  IF g[c] \in {"#"} /\ coverage > best_coverage
             THEN ScanBest_covered_only(g, k + 1, c, coverage)
             ELSE ScanBest_covered_only(g, k + 1, best, best_coverage)

\* Faulty variant of the scan: ">=" for ">" on line 84, the last maximum wins.
RECURSIVE ScanBest_last_max(_, _, _, _)
ScanBest_last_max(g, k, best, best_coverage) ==
    IF k > n * m THEN best
    ELSE LET c == RowMajor[k]
             coverage == get_coverage(g, c[1], c[2], tower_radius)
         IN  IF g[c] \in {"#", "0"} /\ coverage >= best_coverage
             THEN ScanBest_last_max(g, k + 1, c, coverage)
             ELSE ScanBest_last_max(g, k + 1, best, best_coverage)

\* The scan of place_optimal_towers (lines 78-86) from the k-th cell of the
\* row-major order on, with the best position and coverage found so far.
RECURSIVE ScanBest(_, _, _, _)
ScanBest(g, k, best, best_coverage) ==
    IF k > n * m THEN best
    ELSE LET c == RowMajor[k]
             coverage == get_coverage(g, c[1], c[2], tower_radius)
         IN  IF g[c] \in {"#", "0"} /\ coverage > best_coverage
             THEN ScanBest(g, k + 1, c, coverage)
             ELSE ScanBest(g, k + 1, best, best_coverage)

best_tower_position(g) == ScanBest(g, 1, None, 0)

\* Python's order on coordinate tuples: by row, then by column.
CoordLess(a, b) == a[1] < b[1] \/ (a[1] = b[1] /\ a[2] < b[2])

\* Python's order on lists of coordinates: by the first differing element, a
\* proper prefix before the longer list.
RECURSIVE PathLess(_, _)
PathLess(p, q) ==
    IF p = <<>> THEN q # <<>>
    ELSE IF q = <<>> THEN FALSE
    ELSE IF Head(p) = Head(q) THEN PathLess(Tail(p), Tail(q))
    ELSE CoordLess(Head(p), Head(q))

\* Python's order on the (f, (x, y), path) tuples of open_list.
EntryLess(a, b) ==
    \/ a.f < b.f
    \/ a.f = b.f /\ CoordLess(a.pos, b.pos)
    \/ a.f = b.f /\ a.pos = b.pos /\ PathLess(a.path, b.path)

\* min(open_list)
MinEntry(open_list) ==
    CHOOSE e \in {open_list[k] : k \in DOMAIN open_list} :
        \A d \in {open_list[k] : k \in DOMAIN open_list} : ~EntryLess(d, e)

\* open_list.remove(e): the list without the first element equal to e.
Remove(open_list, e) ==
    LET first == CHOOSE k \in DOMAIN open_list :
                     open_list[k] = e /\ \A j \in 1 .. k - 1 : open_list[j] # e
    IN  SubSeq(open_list, 1, first - 1) \o SubSeq(open_list, first + 1, Len(open_list))

\* The coordinates of Window(x, y, r) in the order the two loops visit them.
WindowSeq(x, y, r) ==
    LET i0 == Max(0, x - r)
        j0 == Max(0, y - r)
        w == Max(0, Min(m, y + r + 1) - j0)
        h == Max(0, Min(n, x + r + 1) - i0)
    IN  [k \in 1 .. h * w |-> <<i0 + ((k - 1) \div w), j0 + ((k - 1) % w)>>]

\* Faulty variant of the test of line 153: any cell that is not 0.
Passable_truthy(g, c) == g[c] # "0"

\* Line 153: the cell find_path may step on.
Passable(g, c) == g[c] \in {"#", "|"}

\* Faulty variant of the expansion: the loops of lines 151-152 reach two
\* cells away.
Successors_two_away(g, pos, path, end) ==
    LET steps == SelectSeq(WindowSeq(pos[1], pos[2], 2),
                           LAMBDA c : c # pos /\ Passable(g, c))
    IN  [k \in 1 .. Len(steps) |->
            [f |-> Len(path) + 1 + Abs(steps[k][1] - end[1]) + Abs(steps[k][2] - end[2]),
             pos |-> steps[k],
             path |-> Append(path, pos)]]

\* Faulty variant of the expansion: "i != x and j != y" on line 153.
Successors_diagonal(g, pos, path, end) ==
    LET steps == SelectSeq(WindowSeq(pos[1], pos[2], 1),
                           LAMBDA c : c[1] # pos[1] /\ c[2] # pos[2] /\ Passable(g, c))
    IN  [k \in 1 .. Len(steps) |->
            [f |-> Len(path) + 1 + Abs(steps[k][1] - end[1]) + Abs(steps[k][2] - end[2]),
             pos |-> steps[k],
             path |-> Append(path, pos)]]

\* Lines 151-155: the entries the expansion of (x, y) appends to open_list;
\* steps, the cells the two loops keep, is bound once for all entries.
Successors(g, pos, path, end) ==
    CHOOSE entries \in
        {[k \in 1 .. Len(steps) |->
             [f |-> Len(path) + 1 + Abs(steps[k][1] - end[1]) + Abs(steps[k][2] - end[2]),
              pos |-> steps[k],
              path |-> Append(path, pos)]] :
         steps \in {SelectSeq(WindowSeq(pos[1], pos[2], 1),
                              LAMBDA c : c # pos /\ Passable(g, c))}} : TRUE

\* Faulty variant of the loop: "return path" on line 144.
RECURSIVE FindPathLoop_no_end(_, _, _, _)
FindPathLoop_no_end(g, open_list, closed_list, end) ==
    IF open_list = <<>> THEN [none |-> TRUE, path |-> <<>>]
    ELSE LET e == MinEntry(open_list)
             rest == Remove(open_list, e)
         IN  IF e.pos = end THEN [none |-> FALSE, path |-> e.path]
             ELSE IF e.pos \in closed_list THEN FindPathLoop_no_end(g, rest, closed_list, end)
             ELSE FindPathLoop_no_end(g, rest \o Successors(g, e.pos, e.path, end),
                                      closed_list \cup {e.pos}, end)

\* The loop "while open_list" of find_path and what it returns: a path, or
\* None when open_list runs empty.
RECURSIVE FindPathLoop(_, _, _, _)
FindPathLoop(g, open_list, closed_list, end) ==
    IF open_list = <<>> THEN [none |-> TRUE, path |-> <<>>]
    ELSE LET e == MinEntry(open_list)
             rest == Remove(open_list, e)
         IN  IF e.pos = end THEN [none |-> FALSE, path |-> Append(e.path, e.pos)]
             ELSE IF e.pos \in closed_list THEN FindPathLoop(g, rest, closed_list, end)
             ELSE FindPathLoop(g, rest \o Successors(g, e.pos, e.path, end),
                               closed_list \cup {e.pos}, end)

\* Faulty variant of find_path: a start that is not Covered or Station has no
\* path.
find_path_from_passable(g, start, end) ==
    IF Passable(g, start)
    THEN FindPathLoop(g, <<[f |-> 0, pos |-> start, path |-> <<>>]>>, {}, end)
    ELSE [none |-> TRUE, path |-> <<>>]

find_path(g, start, end) ==
    FindPathLoop(g, <<[f |-> 0, pos |-> start, path |-> <<>>]>>, {}, end)

\* The assignments of build_path_on_grid in the order it makes them: "*" on
\* ttt_path[1:-1], then "B" on ttt_path[0], then "E" on ttt_path[-1].
Marks(ttt_path) ==
    [k \in 1 .. Len(ttt_path) - 2 |-> [pos |-> ttt_path[k + 1], mark |-> "*"]]
        \o <<[pos |-> ttt_path[1], mark |-> "B"],
             [pos |-> ttt_path[Len(ttt_path)], mark |-> "E"]>>

\* Faulty variant of WriteMarks: a cell that already holds the mark gets its
\* '#' back.
RECURSIVE WriteMarks_toggle(_, _)
WriteMarks_toggle(g, marks) ==
    IF marks = <<>> THEN [grid |-> g, error |-> "none"]
    ELSE LET w == Head(marks)
         IN  IF ~InRange(w.pos[1], w.pos[2]) THEN [grid |-> g, error |-> "IndexError"]
             ELSE WriteMarks_toggle(
                      [g EXCEPT ![At(w.pos[1], w.pos[2])] =
                                    IF @ = w.mark THEN "#" ELSE w.mark],
                      Tail(marks))

\* self.grid[cord[0]][cord[1]] = mark, one assignment after the other; an
\* index out of range raises and keeps the assignments made before it.
RECURSIVE WriteMarks(_, _)
WriteMarks(g, marks) ==
    IF marks = <<>> THEN [grid |-> g, error |-> "none"]
    ELSE LET w == Head(marks)
         IN  IF ~InRange(w.pos[1], w.pos[2]) THEN [grid |-> g, error |-> "IndexError"]
             ELSE WriteMarks([g EXCEPT ![At(w.pos[1], w.pos[2])] = w.mark], Tail(marks))

\* build_path_on_grid: the grid after the call and the exception it raised,
\* if any (ttt_path[0] of an empty list raises before any write).
build_path_on_grid(g, ttt_path) ==
    IF ttt_path = <<>> THEN [grid |-> g, error |-> "IndexError"]
    ELSE WriteMarks(g, Marks(ttt_path))

\* The value find_path has not been called for.
NoCall ==
    [op |-> "none", start |-> <<0, 0>>, end |-> <<0, 0>>, none |-> TRUE, path |-> <<>>,
     error |-> "none"]

\* The locals of find_path while no call of it runs.
NoSearch ==
    [start |-> <<0, 0>>, end |-> <<0, 0>>, open_list |-> <<>>, closed_list |-> {},
     expanded |-> <<>>]

\* After generate_obstructions: any set of cells is obstructed (the count is
\* int(n * m * obs_coverage), the cells are random), no tower is placed and
\* __init__ is about to run place_optimal_towers.
Init ==
    /\ n \in 1 .. MaxN
    /\ m \in 1 .. MaxM
    /\ tower_radius \in 1 .. MaxRadius
    /\ \E obstructed \in SUBSET ((0 .. n - 1) \X (0 .. m - 1)) :
          grid = [c \in (0 .. n - 1) \X (0 .. m - 1) |-> IF c \in obstructed THEN "X" ELSE "0"]
    /\ towers = <<>>
    /\ pc = "place_optimal_towers"
    /\ ret = NoCall
    /\ manual = 0
    /\ iterations = 0
    /\ search = NoSearch

\* display_info, which line 89 calls and src/ does not hold: the renderer
\* reads the grid and leaves it as it is.
display_info(g) == g

\* One iteration of "while uncovered_blocks" in place_optimal_towers; iterations
\* counts the iterations of the running call.
OptimalIteration ==
    /\ pc = "place_optimal_towers"
    /\ get_uncovered_blocks(grid) # {}
    /\ LET best == best_tower_position(grid)
           after == place_tower(grid, towers, best[1], best[2], tower_radius)
       IN  IF best # None
           THEN grid' = display_info(after.grid) /\ towers' = after.towers
           ELSE UNCHANGED <<grid, towers>>
    /\ iterations' = iterations + 1
    /\ UNCHANGED <<n, m, tower_radius, pc, ret, manual, search>>

\* place_optimal_towers returns: uncovered_blocks is empty.
OptimalReturn ==
    /\ pc = "place_optimal_towers"
    /\ get_uncovered_blocks(grid) = {}
    /\ pc' = "idle"
    /\ iterations' = 0
    /\ UNCHANGED <<n, m, tower_radius, grid, towers, ret, manual, search>>

\* The driver calls place_optimal_towers again.
CallPlaceOptimal ==
    /\ pc = "idle"
    /\ pc' = "place_optimal_towers"
    /\ UNCHANGED <<n, m, tower_radius, grid, towers, ret, manual, iterations, search>>

\* The driver calls place_tower(x, y, r).
PlaceTower ==
    /\ pc = "idle"
    /\ manual < MaxManual
    /\ \E c \in Cells, r \in 0 .. MaxRadius :
          LET after == place_tower(grid, towers, c[1], c[2], r)
          IN  grid' = after.grid /\ towers' = after.towers
    /\ manual' = manual + 1
    /\ UNCHANGED <<n, m, tower_radius, pc, ret, iterations, search>>

NextPlace == OptimalIteration \/ OptimalReturn \/ CallPlaceOptimal \/ PlaceTower

SpecPlace == Init /\ [][NextPlace]_vars

\* Faulty variant of FindPath: find_path marks the cell it starts from.
FindPath_marking(start, end) ==
    /\ pc = "idle"
    /\ LET r == find_path(grid, start, end)
       IN  ret' = [op |-> "find_path", start |-> start, end |-> end,
                   none |-> r.none, path |-> r.path, error |-> "none"]
    /\ pc' = "returned"
    /\ grid' = [c \in Cells |-> IF c = start THEN "*" ELSE grid[c]]
    /\ UNCHANGED <<n, m, tower_radius, towers, manual, iterations, search>>

\* A call find_path(start, end): the driver holds what it returned.
FindPath(start, end) ==
    /\ pc = "idle"
    /\ LET r == find_path(grid, start, end)
       IN  ret' = [op |-> "find_path", start |-> start, end |-> end,
                   none |-> r.none, path |-> r.path, error |-> "none"]
    /\ pc' = "returned"
    /\ UNCHANGED <<n, m, tower_radius, grid, towers, manual, iterations, search>>

InTowers(c) == \E k \in DOMAIN towers : towers[k] = c

\* The driver asks for the path between two towers of the registry.
FindPathTowers == \E i \in DOMAIN towers, j \in DOMAIN towers : FindPath(towers[i], towers[j])

\* The driver asks for the path between any two coordinates of the grid.
FindPathAny == \E start \in Cells, end \in Cells : FindPath(start, end)

\* The driver overlays the path find_path returned between two towers.
BuildPathOnGrid ==
    /\ pc = "returned"
    /\ ~ret.none
    /\ InTowers(ret.start) /\ InTowers(ret.end)
    /\ grid' = build_path_on_grid(grid, ret.path).grid
    /\ pc' = "idle"
    /\ ret' = NoCall
    /\ UNCHANGED <<n, m, tower_radius, towers, manual, iterations, search>>

\* The driver drops what find_path returned.
Discard ==
    /\ pc = "returned"
    /\ pc' = "idle"
    /\ ret' = NoCall
    /\ search' = NoSearch
    /\ UNCHANGED <<n, m, tower_radius, grid, towers, manual, iterations>>

Next ==
    \/ OptimalIteration
    \/ OptimalReturn
    \/ CallPlaceOptimal
    \/ PlaceTower
    \/ FindPathTowers
    \/ BuildPathOnGrid
    \/ Discard

Spec == Init /\ [][Next]_vars

NextPath == OptimalIteration \/ OptimalReturn \/ FindPathAny \/ Discard

SpecPath == Init /\ [][NextPath]_vars

\* As Init, for grids of up to cols columns with few obstructed cells (a small
\* obs_coverage).
SparseInit(cols) ==
    /\ n \in 1 .. MaxN
    /\ m \in 1 .. cols
    /\ tower_radius \in 1 .. MaxRadius
    /\ \E obstructed \in SUBSET ((0 .. n - 1) \X (0 .. m - 1)) :
          /\ Cardinality(obstructed) <= MaxObstructed
          /\ grid = [c \in (0 .. n - 1) \X (0 .. m - 1) |->
                        IF c \in obstructed THEN "X" ELSE "0"]
    /\ towers = <<>>
    /\ pc = "place_optimal_towers"
    /\ ret = NoCall
    /\ manual = 0
    /\ iterations = 0
    /\ search = NoSearch

InitSparse == SparseInit(WideM)

\* find_path between any two coordinates of the wider, sparse grids.
SpecShortest == InitSparse /\ [][NextPath]_vars

\* The coordinates the driver may pass: those of the grid and those up to
\* Margin outside it.
Coordinates == ((-Margin) .. (n - 1 + Margin)) \X ((-Margin) .. (m - 1 + Margin))

\* The non-empty lists of up to MaxPathLen coordinates.
Paths == UNION {[1 .. k -> Coordinates] : k \in 1 .. MaxPathLen}

\* The driver calls place_tower(x, y, r) with any coordinate and holds how
\* the call ended.
PlaceTowerAt ==
    /\ pc = "idle"
    /\ manual < MaxManual
    /\ \E c \in Coordinates, r \in 0 .. MaxRadius :
          LET after == place_tower(grid, towers, c[1], c[2], r)
          IN  /\ grid' = after.grid
              /\ towers' = after.towers
              /\ ret' = [op |-> "place_tower", start |-> c, end |-> c, none |-> TRUE,
                          path |-> <<>>, error |-> after.error]
    /\ pc' = "returned"
    /\ manual' = manual + 1
    /\ UNCHANGED <<n, m, tower_radius, iterations, search>>

\* The driver calls find_path(start, end) with any two coordinates, on the
\* grid as the constructor left it.
FindPathAt ==
    /\ manual < MaxManual
    /\ \E start \in Coordinates, end \in Coordinates : FindPath(start, end)

\* The driver calls build_path_on_grid with a path of its own.
BuildPathAt ==
    /\ pc = "idle"
    /\ manual < MaxManual
    /\ \E p \in Paths :
          LET after == build_path_on_grid(grid, p)
          IN  /\ grid' = after.grid
              /\ ret' = [op |-> "build_path_on_grid", start |-> p[1], end |-> p[Len(p)],
                          none |-> TRUE, path |-> p, error |-> after.error]
    /\ pc' = "returned"
    /\ manual' = manual + 1
    /\ UNCHANGED <<n, m, tower_radius, towers, iterations, search>>

\* The driver calls build_path_on_grid a second time with the same path.
BuildPathAgain ==
    /\ pc = "returned"
    /\ ret.op = "build_path_on_grid"
    /\ grid' = build_path_on_grid(grid, ret.path).grid
    /\ ret' = [ret EXCEPT !.op = "build_path_on_grid twice"]
    /\ UNCHANGED <<n, m, tower_radius, towers, pc, manual, iterations, search>>

NextCalls ==
    \/ OptimalIteration
    \/ OptimalReturn
    \/ PlaceTowerAt
    \/ FindPathAt
    \/ BuildPathAt
    \/ BuildPathAgain
    \/ Discard

InitCalls == SparseInit(MaxM)

\* Single calls with any arguments on the grids of up to MaxM columns with few
\* obstructed cells.
SpecCalls == InitCalls /\ [][NextCalls]_vars

\* The driver calls find_path(start, end); lines 136-137 set the locals.
FindPathCall ==
    /\ pc = "idle"
    /\ \E start \in Cells, end \in Coordinates :
          search' = [start |-> start, end |-> end,
                     open_list |-> <<[f |-> 0, pos |-> start, path |-> <<>>]>>,
                     closed_list |-> {}, expanded |-> <<>>]
    /\ pc' = "find_path"
    /\ UNCHANGED <<n, m, tower_radius, grid, towers, ret, manual, iterations>>

\* Faulty variant of FindPathIteration: without the test of line 146, a
\* coordinate of closed_list is expanded again.
FindPathIteration_no_closed ==
    /\ pc = "find_path"
    /\ search.open_list # <<>>
    /\ \E e \in {MinEntry(search.open_list)} :
       \E rest \in {Remove(search.open_list, e)} :
          IF e.pos = search.end
          THEN /\ search' = [search EXCEPT !.open_list = rest]
               /\ pc' = "returned"
               /\ ret' = [op |-> "find_path", start |-> search.start, end |-> search.end,
                           none |-> FALSE, path |-> Append(e.path, e.pos), error |-> "none"]
          ELSE /\ search' = [search EXCEPT
                                !.open_list = rest \o Successors(grid, e.pos, e.path, search.end),
                                !.closed_list = @ \cup {e.pos},
                                !.expanded = Append(@, e.pos)]
               /\ UNCHANGED <<pc, ret>>
    /\ UNCHANGED <<n, m, tower_radius, grid, towers, manual, iterations>>

\* One iteration of "while open_list" (lines 140-155): e is min(open_list),
\* rest the list after remove; popping end returns the path (line 144), a
\* coordinate of closed_list is skipped, any other is expanded. expanded lists
\* the coordinates in the order they were added to closed_list.
FindPathIteration ==
    /\ pc = "find_path"
    /\ search.open_list # <<>>
    /\ \E e \in {MinEntry(search.open_list)} :
       \E rest \in {Remove(search.open_list, e)} :
          IF e.pos = search.end
          THEN /\ search' = [search EXCEPT !.open_list = rest]
               /\ pc' = "returned"
               /\ ret' = [op |-> "find_path", start |-> search.start, end |-> search.end,
                           none |-> FALSE, path |-> Append(e.path, e.pos), error |-> "none"]
          ELSE /\ search' = IF e.pos \in search.closed_list
                            THEN [search EXCEPT !.open_list = rest]
                            ELSE [search EXCEPT
                                    !.open_list = rest \o Successors(grid, e.pos, e.path, search.end),
                                    !.closed_list = @ \cup {e.pos},
                                    !.expanded = Append(@, e.pos)]
               /\ UNCHANGED <<pc, ret>>
    /\ UNCHANGED <<n, m, tower_radius, grid, towers, manual, iterations>>

\* open_list has run empty: find_path returns None (line 157).
FindPathReturnNone ==
    /\ pc = "find_path"
    /\ search.open_list = <<>>
    /\ pc' = "returned"
    /\ ret' = [op |-> "find_path", start |-> search.start, end |-> search.end,
                none |-> TRUE, path |-> <<>>, error |-> "none"]
    /\ UNCHANGED <<n, m, tower_radius, grid, towers, manual, iterations, search>>

NextSearch ==
    \/ OptimalIteration
    \/ OptimalReturn
    \/ FindPathCall
    \/ FindPathIteration
    \/ FindPathReturnNone
    \/ Discard

\* find_path one loop iteration at a time, on the grids of SpecCalls.
SpecSearch == InitCalls /\ [][NextSearch]_vars

\* find_path runs on: Python executes the next statement.
LiveSpecSearch ==
    SpecSearch /\ WF_vars(FindPathIteration) /\ WF_vars(FindPathReturnNone)

\* place_optimal_towers runs on: Python executes the next statement.
LiveSpecPlace == SpecPlace /\ WF_vars(OptimalIteration) /\ WF_vars(OptimalReturn)

(***************************************************************************)
(* Notions the properties are stated with, independent of the operators    *)
(* above.                                                                  *)
(***************************************************************************)
Chebyshev(a, b) == Max(Abs(a[1] - b[1]), Abs(a[2] - b[2]))

\* The number of Empty cells within Chebyshev distance r of c.
Score(g, c, r) == Cardinality({d \in Cells : Chebyshev(c, d) <= r /\ g[d] = "0"})

\* c comes before d in row-major order.
Before(c, d) == c[1] < d[1] \/ (c[1] = d[1] /\ c[2] < d[2])

Candidates(g) == {c \in Cells : g[c] \in {"0", "#"}}

NoDuplicates(t) == \A i \in DOMAIN t, j \in DOMAIN t : t[i] = t[j] => i = j

Placing == pc = "place_optimal_towers"

\* C1: when place_optimal_towers has returned (and the driver has placed
\* towers only), every cell of the grid is Obstructed, Covered or Station: no
\* cell is Empty, whatever the obstruction pattern.
C1_NoEmptyAfterPlacement ==
    pc = "idle" => \A c \in Cells : grid[c] \in {"X", "#", "|"}

C1_Witness ==
    /\ pc = "idle"
    /\ manual = 0
    /\ Len(towers) >= 2
    /\ \E c \in Cells : grid[c] = "X"
    /\ \E c \in Cells : grid[c] = "#"

\* C2: place_optimal_towers terminates. An iteration that starts with an
\* Empty cell finds a candidate of score >= 1 and leaves strictly fewer Empty
\* cells; the loop runs at most n * m iterations; the call returns; on a grid
\* of Obstructed cells only it returns at once with the registry unchanged
\* (empty, in the constructor).
C2_PlacementTerminates ==
    /\ [](iterations <= n * m)
    /\ [][(Placing /\ get_uncovered_blocks(grid) # {}) =>
            /\ \E c \in Candidates(grid) : Score(grid, c, tower_radius) >= 1
            /\ Cardinality({c \in Cells : grid'[c] = "0"})
                 < Cardinality({c \in Cells : grid[c] = "0"})]_vars
    /\ []((\A c \in Cells : grid[c] = "X") => (towers = <<>> /\ iterations = 0))
    /\ [][(Placing /\ \A c \in Cells : grid[c] = "X") =>
            (pc' = "idle" /\ towers' = <<>>)]_vars
    /\ (Placing ~> pc = "idle")

C2_Witness ==
    /\ Placing
    /\ iterations >= 2
    /\ get_uncovered_blocks(grid) # {}

\* C3: the station an iteration of place_optimal_towers commits is the first
\* cell in row-major order, among the Empty and Covered cells, whose score
\* (Empty cells within Chebyshev distance tower_radius) is maximal.
C3_FirstMaximalCandidate ==
    [][(Placing /\ towers' # towers) =>
         LET c == towers'[Len(towers')]
         IN  /\ towers' = Append(towers, c)
             /\ c \in Candidates(grid)
             /\ \A d \in Candidates(grid) :
                   /\ Score(grid, d, tower_radius) <= Score(grid, c, tower_radius)
                   /\ Score(grid, d, tower_radius) = Score(grid, c, tower_radius)
                        => ~Before(d, c)]_vars

\* A second station is about to be chosen among several candidates of the
\* same, maximal score.
C3_Witness ==
    /\ Placing
    /\ Len(towers) >= 1
    /\ \E c \in Candidates(grid), d \in Candidates(grid) :
          /\ c # d
          /\ Score(grid, c, tower_radius) = Score(grid, d, tower_radius)
          /\ Score(grid, c, tower_radius) >= 1
          /\ \A e \in Candidates(grid) :
                Score(grid, e, tower_radius) <= Score(grid, c, tower_radius)

\* C4: an Obstructed cell stays Obstructed through every step: placement,
\* place_tower at any coordinate, find_path between two towers of the
\* registry and the overlay of the path it returned.
C4_ObstructedStays ==
    [][\A c \in Cells : grid[c] = "X" => grid'[c] = "X"]_vars

C4_Witness ==
    /\ manual >= 1
    /\ \E c \in Cells : grid[c] = "X"
    /\ \E c \in Cells : grid[c] = "*"
    /\ \E c \in Cells : grid[c] = "E"

\* C5: with placement operations only, the registry holds no coordinate
\* twice and a cell is a Station exactly when its coordinate is registered.
C5_RegistryMatchesStations ==
    /\ NoDuplicates(towers)
    /\ \A c \in Cells : grid[c] = "|" <=> InTowers(c)

C5_Witness ==
    /\ manual >= 1
    /\ Len(towers) >= 3
    /\ pc = "idle"

Returned == pc = "returned" /\ ~ret.none

\* The cells 8-directional steps reach from the cells of S, every cell
\* stepped on being Covered or Station.
RECURSIVE ReachFrom(_, _)
ReachFrom(g, S) ==
    LET T == S \cup {d \in Cells : g[d] \in {"#", "|"} /\ \E c \in S : Chebyshev(c, d) = 1}
    IN  IF T = S THEN S ELSE ReachFrom(g, T)

\* C6: the overlay keeps station identity: every coordinate of the registry
\* is a Station cell and the registry holds no coordinate twice, also after
\* build_path_on_grid and a later place_tower.
C6_StationIdentityKept ==
    /\ \A k \in DOMAIN towers : grid[towers[k]] = "|"
    /\ NoDuplicates(towers)

\* C7: every coordinate of a returned path is in the grid and is the start,
\* the end or a cell that is Covered or Station.
C7_PathCellsPassable ==
    Returned =>
        \A k \in DOMAIN ret.path :
            /\ ret.path[k] \in Cells
            /\ \/ ret.path[k] = ret.start
               \/ ret.path[k] = ret.end
               \/ grid[ret.path[k]] \in {"#", "|"}

\* A path with an interior cell, from an Obstructed start, on a grid with
\* another Obstructed cell.
C7_Witness ==
    /\ Returned
    /\ Len(ret.path) >= 3
    /\ grid[ret.start] = "X"
    /\ \E c \in Cells : c # ret.start /\ grid[c] = "X"

\* C8: consecutive coordinates of a returned path are distinct and within
\* Chebyshev distance 1.
C8_PathStepsAdjacent ==
    Returned =>
        \A k \in 1 .. Len(ret.path) - 1 : Chebyshev(ret.path[k], ret.path[k + 1]) = 1

C8_Witness ==
    /\ Returned
    /\ Len(ret.path) >= 4

\* C9: a returned path starts with start and ends with end.
C9_PathEndpoints ==
    Returned =>
        /\ Len(ret.path) >= 1
        /\ ret.path[1] = ret.start
        /\ ret.path[Len(ret.path)] = ret.end

C9_Witness ==
    /\ Returned
    /\ ret.start # ret.end
    /\ InTowers(ret.start)
    /\ InTowers(ret.end)
    /\ Len(ret.path) >= 3

\* C10: find_path returns None exactly when end is not reachable from start
\* by 8-directional steps on Covered and Station cells.
C10_NoneIffUnreachable ==
    pc = "returned" => (ret.none <=> ret.end \notin ReachFrom(grid, {ret.start}))

\* None between two stations, the start having only Obstructed neighbours.
C10_Witness ==
    /\ pc = "returned"
    /\ ret.none
    /\ ret.start # ret.end
    /\ InTowers(ret.start)
    /\ InTowers(ret.end)
    /\ \E c \in Cells : Chebyshev(c, ret.start) = 1
    /\ \A c \in Cells : Chebyshev(c, ret.start) = 1 => grid[c] = "X"

\* The least number of 8-directional steps on Covered and Station cells from
\* the cells of S to end, d steps being made already; -1 when there is none.
RECURSIVE StepsFrom(_, _, _, _)
StepsFrom(g, S, end, d) ==
    IF end \in S THEN d
    ELSE LET T == S \cup {c \in Cells : g[c] \in {"#", "|"} /\ \E b \in S : Chebyshev(b, c) = 1}
         IN  IF T = S THEN -1 ELSE StepsFrom(g, T, end, d + 1)

\* C11: a returned path is a shortest one: it has as many steps as the
\* shortest walk from start to end on Covered and Station cells.
C11_PathIsShortest ==
    Returned => Len(ret.path) - 1 = StepsFrom(grid, {ret.start}, ret.end, 0)

\* C12: find_path does not depend on the overlay: called again after
\* build_path_on_grid has overlaid the path it returned, find_path(start, end)
\* returns what it returned before.
C12_OverlayKeepsPath ==
    [][(pc = "returned" /\ pc' = "idle") =>
          find_path(grid', ret.start, ret.end) = [none |-> ret.none, path |-> ret.path]]_vars

\* C13: find_path(start, start) returns the path [start], whatever the cell
\* at start and its neighbours are.
C13_StartIsEnd ==
    (pc = "returned" /\ ret.start = ret.end) => (~ret.none /\ ret.path = <<ret.start>>)

\* The call on an Obstructed cell whose neighbours are all Obstructed.
C13_Witness ==
    /\ pc = "returned"
    /\ ret.start = ret.end
    /\ grid[ret.start] = "X"
    /\ \E c \in Cells : Chebyshev(c, ret.start) = 1
    /\ \A c \in Cells : Chebyshev(c, ret.start) = 1 => grid[c] = "X"

OutOfBounds(c) == ~(c[1] \in 0 .. n - 1 /\ c[2] \in 0 .. m - 1)

\* C14: build_path_on_grid is idempotent: the second call with the same
\* non-empty path leaves the grid as the first call left it.
C14_OverlayIdempotent ==
    [][ret'.op = "build_path_on_grid twice" => grid' = grid]_vars

\* The second call is made with a path of three different cells of the grid.
C14_Witness ==
    /\ ret.op = "build_path_on_grid twice"
    /\ ret.error = "none"
    /\ Len(ret.path) = 3
    /\ \A k \in 1 .. 3 : ~OutOfBounds(ret.path[k])
    /\ ret.path[1] # ret.path[2] /\ ret.path[2] # ret.path[3] /\ ret.path[1] # ret.path[3]

\* C15: a call of place_tower, find_path or build_path_on_grid with a
\* coordinate outside the grid ends with an error and changes neither the
\* grid nor the registry.
C15_OutOfBoundsRaises ==
    [][(pc = "idle" /\ pc' = "returned" /\
          \/ OutOfBounds(ret'.start)
          \/ OutOfBounds(ret'.end)
          \/ \E k \in DOMAIN ret'.path : OutOfBounds(ret'.path[k]))
        => (ret'.error # "none" /\ grid' = grid /\ towers' = towers)]_vars

\* C16: place_tower on a cell that is Obstructed or a Station changes no cell
\* and appends nothing to the registry.
C16_OccupiedRejected ==
    [][(pc = "idle" /\ ret'.op = "place_tower" /\ InRange(ret'.start[1], ret'.start[2])
          /\ grid[At(ret'.start[1], ret'.start[2])] \in {"X", "|"})
        => (grid' = grid /\ towers' = towers)]_vars

\* place_tower has returned from a call on an Obstructed cell of a grid that
\* has a Station.
C16_Witness ==
    /\ pc = "returned"
    /\ ret.op = "place_tower"
    /\ ~OutOfBounds(ret.start)
    /\ grid[ret.start] = "X"
    /\ towers # <<>>

\* C17: a successful place_tower(x, y, r) on an Empty or Covered cell makes
\* (x, y) a Station, makes the Empty cells within Chebyshev distance r of it
\* Covered, appends (x, y) once to the registry and changes nothing else; r
\* is tower_radius in place_optimal_towers.
C17_PlaceTowerEffect ==
    [][towers' # towers =>
         LET c == towers'[Len(towers')]
         IN  /\ towers' = Append(towers, c)
             /\ c \in Cells
             /\ grid[c] \in {"0", "#"}
             /\ \E r \in (IF Placing THEN {tower_radius} ELSE 0 .. MaxRadius) :
                   \A d \in Cells :
                      grid'[d] = IF d = c THEN "|"
                                 ELSE IF Chebyshev(c, d) <= r /\ grid[d] = "0" THEN "#"
                                 ELSE grid[d]]_vars

\* A later station stands within tower_radius of an earlier one, on a grid
\* with an Obstructed cell.
C17_Witness ==
    /\ Len(towers) >= 2
    /\ \E i \in DOMAIN towers, j \in DOMAIN towers :
          i < j /\ Chebyshev(towers[i], towers[j]) <= tower_radius
    /\ \E c \in Cells : grid[c] = "X"

\* C19: get_coverage(x, y, R) is the number of Empty cells of the grid within
\* Chebyshev distance R of (x, y), (x, y) included.
C19_CoverageIsScore ==
    \A c \in Cells, R \in 0 .. MaxRadius :
        get_coverage(grid, c[1], c[2], R) = Score(grid, c, R)

\* Placement is under way: Empty, Covered and Obstructed cells are there, and
\* the Empty corner (0, 0) counts itself and a neighbour.
C19_Witness ==
    /\ Placing
    /\ towers # <<>>
    /\ grid[<<0, 0>>] = "0"
    /\ Score(grid, <<0, 0>>, 1) >= 2
    /\ \E c \in Cells : grid[c] = "X"

\* C20: find_path changes neither the grid nor the registry, whether it
\* returns a path or None.
C20_FindPathKeepsState ==
    [][(pc = "idle" /\ pc' = "returned" /\ ret'.op = "find_path")
        => (grid' = grid /\ towers' = towers)]_vars

\* find_path has returned None on a grid with a Station.
C20_Witness ==
    /\ pc = "returned"
    /\ ret.op = "find_path"
    /\ ret.none
    /\ towers # <<>>
    /\ grid[ret.end] = "X"

\* C18: find_path terminates: no coordinate is expanded twice (every
\* expansion adds a new coordinate to closed_list), and a running call
\* returns, once end is popped or open_list is empty.
C18_SearchTerminates ==
    /\ [](NoDuplicates(search.expanded)
          /\ search.closed_list = {search.expanded[k] : k \in DOMAIN search.expanded})
    /\ (pc = "find_path" ~> pc = "returned")

\* find_path has returned None after it expanded five or more coordinates.
C18_Witness ==
    /\ pc = "returned"
    /\ ret.none
    /\ Len(search.expanded) >= 5
    /\ \E c \in Cells : grid[c] = "X"

\* The iterations return what find_path, taken as one step, returns.
SearchAgreesWithFindPath ==
    (pc = "returned" /\ ret.op = "find_path")
        => find_path(grid, ret.start, ret.end) = [none |-> ret.none, path |-> ret.path]

\* A coordinate of closed_list is popped again and skipped.
SearchSkipsClosed ==
    /\ pc = "find_path"
    /\ search.open_list # <<>>
    /\ MinEntry(search.open_list).pos \in search.closed_list

====
